---- MODULE Spec2Model ----
(***************************************************************************)
(* Model of etl.py: a batch job that reads a song catalog and a session    *)
(* event log, derives the tables songs, artists, users, time and songplays *)
(* and writes each of them with mode "overwrite".                          *)
(*                                                                         *)
(* A dataframe is a bag (multiset) of rows, a row is a record.  Every      *)
(* statement of process_song_data and process_log_data is one action; pc   *)
(* is the statement main() executes next.                                  *)
(***************************************************************************)
EXTENDS Integers, FiniteSets, Sequences, Bags, TLC

VARIABLES
    pc,               \* the statement of main() that runs next, or "done" / "error"
    run,              \* number of the current invocation of main()
    tz,               \* UTC offset (seconds) of the zone used by the date conversions
    song_data,        \* raw input: rows under input_data + song_data/*/*/*/*.json
    log_data,         \* raw input: rows under input_data + log_data/*/*/*.json
    df,               \* the local dataframe df of the function that is running
    songs_table, artists_table, users_table, time_table,
    song_df, songplays_table,
    out,              \* the five output locations under output_data
    prior,            \* what the output locations held when this run began
    replaced          \* output locations whose write completed in this run

vars == <<pc, run, tz, song_data, log_data, df, songs_table, artists_table,
          users_table, time_table, song_df, songplays_table, out, prior, replaced>>

(***************************************************************************)
(* Bounds of the model.                                                    *)
(***************************************************************************)
MaxCatalog == 2       \* rows of song_data in a run of Spec
MaxEvents == 3        \* rows of log_data in a run of Spec
MaxRuns == 2          \* invocations of main() in SpecRuns
MaxRunRows == 1       \* rows of song_data, and of log_data, in a run of SpecRuns

(***************************************************************************)
(* Values.  A JSON null is NULL; the catalog's fields and the strings and   *)
(* floats of an event are kept as strings, ts and the calendar fields are  *)
(* integers.                                                               *)
(***************************************************************************)
NULL == "<null>"

\* Spark SQL equality as a join condition: a comparison with null is not true.
SqlEq(a, b) == a # NULL /\ b # NULL /\ a = b

SongRecord(sid, title, aid, aname, loc, lat, lon, yr, dur) ==
    [song_id |-> sid, title |-> title, artist_id |-> aid, artist_name |-> aname,
     artist_location |-> loc, artist_latitude |-> lat, artist_longitude |-> lon,
     year |-> yr, duration |-> dur]

EventRecord(page, uid, level, ts, song, artist, length, sid) ==
    [page |-> page, userId |-> uid,
     firstName |-> IF uid = "1" THEN "A" ELSE "C",
     lastName |-> IF uid = "1" THEN "B" ELSE "D",
     gender |-> IF uid = "1" THEN "M" ELSE "F",
     level |-> level, ts |-> ts, song |-> song, artist |-> artist,
     length |-> length, sessionId |-> sid, location |-> "NYC", userAgent |-> "UA"]

\* The catalog rows the inputs are drawn from: two songs with the same title,
\* artist name and duration, a row that reuses song_id and artist_id with
\* other attributes, and a row of nulls.
SongPool ==
    { SongRecord("S1", "Test", "A1", "Artist", "NYC", "1.0", "2.0", "2000", "200.0"),
      SongRecord("S2", "Test", "A1", "Artist", "NYC", "1.0", "2.0", "2000", "200.0"),
      SongRecord("S1", "Live", "A1", "Artist feat. X", NULL, NULL, NULL, "2001", "300.5"),
      SongRecord("S3", NULL, "A2", NULL, NULL, NULL, NULL, NULL, NULL) }

\* The event rows the inputs are drawn from.  ts is in epoch milliseconds:
\* 79007796 is 1970-01-01 21:56:47.796 UTC, -3600001 is one millisecond
\* before 1969-12-31 23:00:00 UTC, 2000000000 is 1970-01-24 03:33:20 UTC.
EventPool ==
    { EventRecord("NextSong", "1", "free", 79007796, "Test", "Artist", "200.0", 1),
      EventRecord("NextSong", "1", "paid", 79007123, "Test", "Artist", "200.5", 1),
      EventRecord("NextSong", "1", "paid", 79007796, NULL, NULL, NULL, 2),
      EventRecord("Home", "2", "free", 2000000000, NULL, NULL, NULL, 3),
      EventRecord("NextSong", "2", "free", -3600001, NULL, NULL, NULL, 3),
      EventRecord("NextSong", "2", "paid", 2000000000, "Live", "Artist feat. X", "300.5", 4),
      EventRecord("Home", "1", "free", 79007796, NULL, NULL, NULL, 1) }

\* The zones of the runs: UTC and UTC-5.
Zones == {0, 0 - 18000}

\* All bags of at most n rows drawn from pool.
BagsUpTo(pool, n) ==
    { b \in UNION { [S -> 1..n] : S \in { T \in SUBSET pool : Cardinality(T) <= n } } :
        BagCardinality(b) <= n }

(***************************************************************************)
(* Dataframe operations.                                                   *)
(***************************************************************************)
\* df.where(condition), rows being the rows of B that satisfy the condition.
\* (selectExpr and withColumn are BagOfAll: one output row per input row.)
Where(B, rows) == [r \in rows \cap DOMAIN B |-> B[r]]

\* A table left as it is, duplicates included.
KeepDuplicates(B) == B

\* df.dropDuplicates(): full-row equality.
DropDuplicates(B) == SetToBag(BagToSet(B))

\* The rows of B, one element per copy.
Copies(B) == { <<r, k>> \in (DOMAIN B) \X (1..BagCardinality(B)) : k <= B[r] }

\* selectExpr('song_id', 'title', 'artist_id', 'year', 'duration')
SongsRow(r) ==
    [song_id |-> r.song_id, title |-> r.title, artist_id |-> r.artist_id,
     year |-> r.year, duration |-> r.duration]

\* selectExpr('artist_id', 'artist_name as name', 'artist_location as location',
\*            'artist_latitude as latitude', 'artist_longitude as longitude')
ArtistsRow(r) ==
    [artist_id |-> r.artist_id, name |-> r.artist_name, location |-> r.artist_location,
     latitude |-> r.artist_latitude, longitude |-> r.artist_longitude]

\* write.mode("append"): the rows are added to the data at the location.
AppendMode(old, new) == old (+) new

\* write.mode("overwrite"): the data at the location is replaced.
Overwrite(old, new) == new

Locations == <<"songs_table", "artists_table", "users_table", "time_table",
               "songplays_table">>

LocationSet == { Locations[i] : i \in DOMAIN Locations }

\* A write that completes.
Write(loc, table) ==
    /\ out' = [out EXCEPT ![loc] = Overwrite(out[loc], table)]
    /\ replaced' = replaced \cup {loc}

(***************************************************************************)
(* Timestamp and calendar functions.                                       *)
(***************************************************************************)
\* udf(lambda ts_ms: int(int(ts_ms) / 1000)): int() truncates toward zero.
get_timestamp(ts_ms) ==
    IF ts_ms >= 0 THEN ts_ms \div 1000 ELSE 0 - ((0 - ts_ms) \div 1000)

\* udf(lambda ts: datetime.fromtimestamp(ts), DateType()): the local date of
\* the instant; a DateType value is a number of days since 1970-01-01 and
\* keeps no time of day.
get_datetime(ts, zone) == (ts + zone) \div 86400

\* The proleptic Gregorian date of a day number.
CivilFromDays(days) ==
    LET z == days + 719468
        era == z \div 146097
        doe == z - era * 146097
        yoe == (doe - doe \div 1460 + doe \div 36524 - doe \div 146096) \div 365
        doy == doe - (365 * yoe + yoe \div 4 - yoe \div 100)
        mp == (5 * doy + 2) \div 153
        d == doy - (153 * mp + 2) \div 5 + 1
        m == IF mp < 10 THEN mp + 3 ELSE mp - 9
    IN  [year |-> yoe + era * 400 + (IF m <= 2 THEN 1 ELSE 0), month |-> m, day |-> d]

\* The day number of a proleptic Gregorian date.
DaysFromCivil(y, m, d) ==
    LET yy == IF m <= 2 THEN y - 1 ELSE y
        era == yy \div 400
        yoe == yy - era * 400
        doy == (153 * (IF m > 2 THEN m - 3 ELSE m + 9) + 2) \div 5 + d - 1
        doe == yoe * 365 + yoe \div 4 - yoe \div 100 + doy
    IN  era * 146097 + doe - 719468

\* ISO day of the week of a day number, Monday = 1 (1970-01-01 is a Thursday).
IsoWeekday(days) == ((days + 3) % 7) + 1

\* Number of ISO weeks of year y.
IsoWeeksIn(y) ==
    LET jan1 == IsoWeekday(DaysFromCivil(y, 1, 1))
        leap == (y % 4 = 0 /\ y % 100 # 0) \/ y % 400 = 0
    IN  IF jan1 = 4 \/ (leap /\ jan1 = 3) THEN 53 ELSE 52

\* hour(col): a date cast to a timestamp is midnight of that date in the
\* session zone, and hour is the hour of day of that instant in this zone.
hour(date, zone) ==
    LET instant == date * 86400 - zone
    IN  ((instant + zone) % 86400) \div 3600

dayofmonth(date) == CivilFromDays(date).day

month(date) == CivilFromDays(date).month

year(date) == CivilFromDays(date).year

\* weekofyear(col): ISO 8601 week number.
weekofyear(date) ==
    LET y == year(date)
        doy == date - DaysFromCivil(y, 1, 1) + 1
        w == (doy - IsoWeekday(date) + 10) \div 7
    IN  IF w < 1 THEN IsoWeeksIn(y - 1)
        ELSE IF w > IsoWeeksIn(y) THEN 1 ELSE w

\* date_format(col, 'EEEE')
date_format(date) ==
    <<"Monday", "Tuesday", "Wednesday", "Thursday", "Friday", "Saturday",
      "Sunday">>[IsoWeekday(date)]

(***************************************************************************)
(* process_log_data: the expressions of its statements.                    *)
(***************************************************************************)
IsNextSong(r) == r.page = "NextSong"

\* orderBy('ts'), ascending.
AscTs(a, b) == a.ts < b.ts

\* orderBy(desc('ts')): a is placed before b.
DescTs(a, b) == a.ts > b.ts

\* row_number().over(Window.partitionBy('userId').orderBy(desc('ts'))): rn numbers
\* the rows of every partition 1, 2, ... in an order that agrees with the
\* ordering; rows that tie are numbered in any order.
IsRowNumber(B, rn) ==
    \A c \in Copies(B) :
        LET part == { d \in Copies(B) : d[1].userId = c[1].userId }
        IN  /\ rn[c] \in 1..Cardinality(part)
            /\ \A d \in part :
                  /\ d # c => rn[d] # rn[c]
                  /\ DescTs(d[1], c[1]) => rn[d] < rn[c]

\* df.row_number == 2
IsSecond(r) == r.row_number = 2

\* df.row_number == 1
IsFirst(r) == r.row_number = 1

\* selectExpr('userId as user_id', 'firstName as first_name',
\*            'lastName as last_name', 'gender', 'level')
UsersRow(r) ==
    [user_id |-> r.userId, first_name |-> r.firstName, last_name |-> r.lastName,
     gender |-> r.gender, level |-> r.level]

\* selectExpr('timestamp as start_time', 'hour', 'day', 'week', 'month', 'year', 'weekday')
TimeRow(r) ==
    [start_time |-> r.timestamp, hour |-> r.hour, day |-> r.day, week |-> r.week,
     month |-> r.month, year |-> r.year, weekday |-> r.weekday]

\* A join condition that leaves the duration out.
TitleAndArtist(l, s) ==
    /\ SqlEq(l.song, s.title)
    /\ SqlEq(l.artist, s.artist_name)

\* (df.song == song_df.title) & (df.artist == song_df.artist_name)
\*   & (df.length == song_df.duration)
JoinCond(l, s) ==
    /\ SqlEq(l.song, s.title)
    /\ SqlEq(l.artist, s.artist_name)
    /\ SqlEq(l.length, s.duration)

\* The right side of a left join row that has no match: every column is null.
NullSong == SongRecord(NULL, NULL, NULL, NULL, NULL, NULL, NULL, NULL, NULL)

\* L.join(R, JoinCond, 'left'): one row per pair of a row of L and a row of R
\* that satisfy the condition, and one row per row of L that no row of R matches.
LeftJoin(L, R) ==
    LET matched == { p \in (DOMAIN L) \X (DOMAIN R) : JoinCond(p[1], p[2]) }
        alone == { l \in DOMAIN L : \A s \in DOMAIN R : ~JoinCond(l, s) }
    IN  [ j \in { [log |-> p[1], song |-> p[2]] : p \in matched }
                \cup { [log |-> l, song |-> NullSong] : l \in alone } |->
            IF j.song = NullSong /\ j.log \in alone THEN L[j.log]
            ELSE L[j.log] * R[j.song] ]

\* selectExpr('timestamp as start_time', 'userId as user_id', 'level', 'song_id',
\*            'artist_id', 'sessionId as session_id', 'location',
\*            'userAgent as user_agent', 'year(date) as year', 'month(date) as month')
SongplaysRow(j) ==
    [start_time |-> j.log.timestamp, user_id |-> j.log.userId, level |-> j.log.level,
     song_id |-> j.song.song_id, artist_id |-> j.song.artist_id,
     session_id |-> j.log.sessionId, location |-> j.log.location,
     user_agent |-> j.log.userAgent, year |-> year(j.log.date),
     month |-> month(j.log.date)]

(***************************************************************************)
(* The state machine.                                                      *)
(***************************************************************************)
NoTables ==
    /\ df = EmptyBag
    /\ songs_table = EmptyBag
    /\ artists_table = EmptyBag
    /\ users_table = EmptyBag
    /\ time_table = EmptyBag
    /\ song_df = EmptyBag
    /\ songplays_table = EmptyBag

\* The state main() starts in: the raw inputs are given, no output exists.
InitWith(catalogs, logs) ==
    /\ pc = "song_read"
    /\ run = 1
    /\ tz \in Zones
    /\ song_data \in catalogs
    /\ log_data \in logs
    /\ NoTables
    /\ out = [l \in LocationSet |-> EmptyBag]
    /\ prior = out
    /\ replaced = {}

Init == InitWith(BagsUpTo(SongPool, MaxCatalog), BagsUpTo(EventPool, MaxEvents))

inputs == <<run, tz, song_data, log_data>>
outputs == <<out, prior, replaced>>
tables == <<songs_table, artists_table, users_table, time_table, song_df,
            songplays_table>>

\* etl.py:30  df = spark.read.json(song_data)
SongRead ==
    /\ pc = "song_read"
    /\ df' = song_data
    /\ pc' = "songs_extract"
    /\ UNCHANGED <<inputs, outputs, tables>>

\* etl.py:33
SongsExtract ==
    /\ pc = "songs_extract"
    /\ songs_table' = DropDuplicates(BagOfAll(SongsRow, df))
    /\ pc' = "songs_write"
    /\ UNCHANGED <<inputs, outputs, df, artists_table, users_table, time_table,
                   song_df, songplays_table>>

\* etl.py:36
SongsWrite ==
    /\ pc = "songs_write"
    /\ Write("songs_table", songs_table)
    /\ pc' = "artists_extract"
    /\ UNCHANGED <<inputs, prior, df, tables>>

\* etl.py:39-40
ArtistsExtract ==
    /\ pc = "artists_extract"
    /\ artists_table' = DropDuplicates(BagOfAll(ArtistsRow, df))
    /\ pc' = "artists_write"
    /\ UNCHANGED <<inputs, outputs, df, songs_table, users_table, time_table,
                   song_df, songplays_table>>

\* etl.py:43
ArtistsWrite ==
    /\ pc = "artists_write"
    /\ Write("artists_table", artists_table)
    /\ pc' = "log_read"
    /\ UNCHANGED <<inputs, prior, df, tables>>

\* etl.py:51  df = spark.read.json(log_data)
LogRead ==
    /\ pc = "log_read"
    /\ df' = log_data
    /\ pc' = "log_filter"
    /\ UNCHANGED <<inputs, outputs, tables>>

\* etl.py:54
LogFilter ==
    /\ pc = "log_filter"
    /\ df' = Where(df, { r \in DOMAIN df : IsNextSong(r) })
    /\ pc' = "log_row_number"
    /\ UNCHANGED <<inputs, outputs, tables>>

\* etl.py:57-60
LogRowNumber ==
    /\ pc = "log_row_number"
    /\ \E rn \in [Copies(df) -> 1..BagCardinality(df)] :
          /\ IsRowNumber(df, rn)
          /\ df' = SetToBag({ c[1] @@ [row_number |-> rn[c]] : c \in Copies(df) })
    /\ pc' = "users_extract"
    /\ UNCHANGED <<inputs, outputs, tables>>

\* etl.py:63-64
UsersExtract ==
    /\ pc = "users_extract"
    /\ users_table' = BagOfAll(UsersRow, Where(df, { r \in DOMAIN df : IsFirst(r) }))
    /\ pc' = "users_write"
    /\ UNCHANGED <<inputs, outputs, df, songs_table, artists_table, time_table,
                   song_df, songplays_table>>

\* etl.py:67
UsersWrite ==
    /\ pc = "users_write"
    /\ Write("users_table", users_table)
    /\ pc' = "log_timestamp"
    /\ UNCHANGED <<inputs, prior, df, tables>>

\* etl.py:70-71
LogTimestamp ==
    /\ pc = "log_timestamp"
    /\ df' = BagOfAll(LAMBDA r : r @@ [timestamp |-> get_timestamp(r.ts)], df)
    /\ pc' = "log_date"
    /\ UNCHANGED <<inputs, outputs, tables>>

\* etl.py:74-75
LogDate ==
    /\ pc = "log_date"
    /\ df' = BagOfAll(LAMBDA r : r @@ [date |-> get_datetime(r.timestamp, tz)], df)
    /\ pc' = "log_time_columns"
    /\ UNCHANGED <<inputs, outputs, tables>>

\* etl.py:78-84
LogTimeColumns ==
    /\ pc = "log_time_columns"
    /\ df' = BagOfAll(LAMBDA r : r @@
                [hour |-> hour(r.date, tz), day |-> dayofmonth(r.date),
                 week |-> weekofyear(r.date), month |-> month(r.date),
                 year |-> year(r.date), weekday |-> date_format(r.date)], df)
    /\ pc' = "time_extract"
    /\ UNCHANGED <<inputs, outputs, tables>>

\* etl.py:86
TimeExtract ==
    /\ pc = "time_extract"
    /\ time_table' = DropDuplicates(BagOfAll(TimeRow, df))
    /\ pc' = "time_write"
    /\ UNCHANGED <<inputs, outputs, df, songs_table, artists_table, users_table,
                   song_df, songplays_table>>

\* etl.py:89
TimeWrite ==
    /\ pc = "time_write"
    /\ Write("time_table", time_table)
    /\ pc' = "song_reread"
    /\ UNCHANGED <<inputs, prior, df, tables>>

\* etl.py:92  song_df = spark.read.json(...)
SongReread ==
    /\ pc = "song_reread"
    /\ song_df' = song_data
    /\ pc' = "songplays_extract"
    /\ UNCHANGED <<inputs, outputs, df, songs_table, artists_table, users_table,
                   time_table, songplays_table>>

\* etl.py:95-97
SongplaysExtract ==
    /\ pc = "songplays_extract"
    /\ songplays_table' = BagOfAll(SongplaysRow, LeftJoin(df, song_df))
    /\ pc' = "songplays_write"
    /\ UNCHANGED <<inputs, outputs, df, songs_table, artists_table, users_table,
                   time_table, song_df>>

\* etl.py:100, and the return of main()
SongplaysWrite ==
    /\ pc = "songplays_write"
    /\ Write("songplays_table", songplays_table)
    /\ pc' = "done"
    /\ UNCHANGED <<inputs, prior, df, tables>>

Running == pc \notin {"done", "error"}

\* The table a write statement writes, and its location.
WriteStatements ==
    [songs_write |-> <<"songs_table", songs_table>>,
     artists_write |-> <<"artists_table", artists_table>>,
     users_write |-> <<"users_table", users_table>>,
     time_write |-> <<"time_table", time_table>>,
     songplays_write |-> <<"songplays_table", songplays_table>>]

\* An error that is caught and passed over: main() goes on with the next function.
Swallow ==
    /\ Running
    /\ pc' = IF pc \in {"song_read", "songs_extract", "songs_write", "artists_extract",
                        "artists_write"}
             THEN "log_read" ELSE "done"
    /\ UNCHANGED <<inputs, outputs, df, tables>>

\* A statement raises (a read, a derivation, or a write before it touches its
\* location): nothing catches it, main() terminates with the error.
Fail ==
    /\ Running
    /\ pc' = "error"
    /\ UNCHANGED <<inputs, outputs, df, tables>>

\* A write raises after it began to replace its location: the location is left
\* empty or with a part of the table.
FailInWrite ==
    /\ pc \in DOMAIN WriteStatements
    /\ \E part \in SubBag(WriteStatements[pc][2]) :
          /\ part # WriteStatements[pc][2]
          /\ out' = [out EXCEPT ![WriteStatements[pc][1]] = part]
    /\ pc' = "error"
    /\ UNCHANGED <<inputs, prior, replaced, df, tables>>

Step ==
    \/ SongRead \/ SongsExtract \/ SongsWrite \/ ArtistsExtract \/ ArtistsWrite
    \/ LogRead \/ LogFilter \/ LogRowNumber \/ UsersExtract \/ UsersWrite
    \/ LogTimestamp \/ LogDate \/ LogTimeColumns \/ TimeExtract \/ TimeWrite
    \/ SongReread \/ SongplaysExtract \/ SongplaysWrite

Next == Step \/ Fail \/ FailInWrite

\* A single invocation of main().
Spec == Init /\ [][Next]_vars

\* The inputs of the runs of SpecRuns.
RunSongPool == { s \in SongPool : s.song_id \in {"S2", "S3"} }

RunEventPool ==
    { e \in EventPool :
        e.page = "NextSong" /\ (e.sessionId = 4 \/ (e.sessionId = 1 /\ e.level = "free")) }

InitRuns == InitWith(BagsUpTo(RunSongPool, MaxRunRows), BagsUpTo(RunEventPool, MaxRunRows))

\* main() is invoked again on the same machine, over raw inputs that may have
\* changed; the output locations keep what the earlier runs left.
Rerun ==
    /\ ~Running
    /\ run < MaxRuns
    /\ run' = run + 1
    /\ tz' = tz
    /\ song_data' \in BagsUpTo(RunSongPool, MaxRunRows)
    /\ log_data' \in BagsUpTo(RunEventPool, MaxRunRows)
    /\ df' = EmptyBag
    /\ songs_table' = EmptyBag
    /\ artists_table' = EmptyBag
    /\ users_table' = EmptyBag
    /\ time_table' = EmptyBag
    /\ song_df' = EmptyBag
    /\ songplays_table' = EmptyBag
    /\ prior' = out
    /\ replaced' = {}
    /\ pc' = "song_read"
    /\ UNCHANGED out

NextRuns == Step \/ Fail \/ FailInWrite \/ Rerun

\* Successive invocations of main() over the same output locations.
SpecRuns == InitRuns /\ [][NextRuns]_vars

(***************************************************************************)
(* Properties.                                                             *)
(***************************************************************************)
Done == pc = "done"

Ended == pc \in {"done", "error"}

\* The raw event rows that are plays.
NextSongEvents == { e \in DOMAIN log_data : e.page = "NextSong" }

\* The number of rows of table B that are in the set rows, copies counted.
CountRows(B, rows) == BagCardinality([r \in rows \cap DOMAIN B |-> B[r]])

\* t is ts divided by 1000, the quotient truncated toward zero.
IsTruncatedSeconds(t, ts) ==
    IF ts >= 0 THEN t >= 0 /\ ts - t * 1000 \in 0..999
    ELSE t <= 0 /\ t * 1000 - ts \in 0..999

\* Catalog row c matches event e on title, artist name and duration.
Matches(e, c) ==
    /\ e.song # NULL /\ e.song = c.title
    /\ e.artist # NULL /\ e.artist = c.artist_name
    /\ e.length # NULL /\ e.length = c.duration

\* The table this run derived for a location.
TableOf(l) ==
    CASE l = "songs_table" -> songs_table
      [] l = "artists_table" -> artists_table
      [] l = "users_table" -> users_table
      [] l = "time_table" -> time_table
      [] l = "songplays_table" -> songplays_table

\* The locations written by the first n write statements of main().
FirstWrites(n) == { Locations[i] : i \in 1..n }

\* C1: when main() has returned, songplays has as many rows as the raw log has
\* rows with page = "NextSong", whatever the catalog is.
C1_SongplaysCardinality ==
    Done => BagCardinality(out.songplays_table)
                = CountRows(log_data, NextSongEvents)

\* C2: when main() has returned, users has exactly one row for every userId
\* that has a NextSong event, this row is projected from one of that user's
\* NextSong events of maximal ts, and users has no row for any other userId.
C2_UsersLatest ==
    Done =>
        /\ \A u \in { e.userId : e \in NextSongEvents } :
              /\ CountRows(out.users_table, { r \in DOMAIN out.users_table : r.user_id = u }) = 1
              /\ \A r \in DOMAIN out.users_table :
                    r.user_id = u =>
                        \E e \in NextSongEvents :
                            /\ e.userId = u
                            /\ \A f \in NextSongEvents : f.userId = u => f.ts <= e.ts
                            /\ r = [user_id |-> u, first_name |-> e.firstName,
                                    last_name |-> e.lastName, gender |-> e.gender,
                                    level |-> e.level]
        /\ \A r \in DOMAIN out.users_table :
              r.user_id \in { e.userId : e \in NextSongEvents }

\* A run over a user whose level changed between two plays and a user who has
\* no play at all.
C2_Witness ==
    /\ Done
    /\ \E e, f \in NextSongEvents :
          /\ e.userId = f.userId /\ e.ts < f.ts /\ e.level # f.level
          /\ \E r \in DOMAIN out.users_table : r.user_id = f.userId /\ r.level = f.level
    /\ \E h \in DOMAIN log_data : h.userId \notin { e.userId : e \in NextSongEvents }

\* C3: when main() has returned, no two rows of songs have the same song_id
\* and no two rows of artists have the same artist_id.
C3_KeysUnique ==
    Done =>
        /\ \A r \in DOMAIN out.songs_table :
              CountRows(out.songs_table,
                        { x \in DOMAIN out.songs_table : x.song_id = r.song_id }) = 1
        /\ \A r \in DOMAIN out.artists_table :
              CountRows(out.artists_table,
                        { x \in DOMAIN out.artists_table : x.artist_id = r.artist_id }) = 1

\* C4: when main() has returned, for every NextSong event the time table has
\* a row whose start_time is ts / 1000 truncated and whose hour, day, month
\* and year are those of that instant in the zone of the run.
C4_TimeDecomposition ==
    Done =>
        \A e \in NextSongEvents :
            \E r \in DOMAIN out.time_table :
                LET local == r.start_time + tz
                    civil == CivilFromDays(local \div 86400)
                IN  /\ IsTruncatedSeconds(r.start_time, e.ts)
                    /\ r.hour = (local % 86400) \div 3600
                    /\ r.day = civil.day
                    /\ r.month = civil.month
                    /\ r.year = civil.year

\* C5 as stated: a run that has ended either replaced all five locations by
\* its tables or terminated with an error, and it never replaced some but not
\* all of them.
C5_AllOrNothing ==
    Ended =>
        /\ pc = "error" \/ \A l \in LocationSet : l \in replaced /\ out[l] = TableOf(l)
        /\ replaced \in {{}, LocationSet}

\* C5 as amended: a run that returned replaced all five locations by its
\* tables; a run that terminated with an error replaced exactly the locations
\* of the write statements that completed before the failure, a proper prefix
\* of songs, artists, users, time, songplays, each by the table of this run,
\* and left every location after the next one as it was before the run.
C5_PrefixReplaced ==
    /\ Done => \A l \in LocationSet : l \in replaced /\ out[l] = TableOf(l)
    /\ pc = "error" =>
          \E n \in 0..(Len(Locations) - 1) :
              /\ replaced = FirstWrites(n)
              /\ \A l \in replaced : out[l] = TableOf(l)
              /\ \A i \in (n + 2)..Len(Locations) : out[Locations[i]] = prior[Locations[i]]

\* A run that failed after it replaced some locations whose earlier content
\* was different, and before it wrote the last one.
C5_Witness ==
    /\ pc = "error"
    /\ replaced \notin {{}, LocationSet}
    /\ \E l \in replaced : prior[l] # EmptyBag /\ out[l] # prior[l]
    /\ prior.songplays_table # EmptyBag
    /\ out.songplays_table = prior.songplays_table

\* C6: when main() has returned, every songplays row with a song_id carries
\* the song_id and artist_id of a catalog row that equals a NextSong event on
\* title, artist name and duration, the other columns coming from that event;
\* and every NextSong event that no catalog row matches has a songplays row
\* with null song_id and artist_id and start_time = ts / 1000.
C6_JoinByContent ==
    Done =>
        /\ \A r \in DOMAIN out.songplays_table :
              r.song_id # NULL =>
                  \E e \in NextSongEvents, c \in DOMAIN song_data :
                      /\ Matches(e, c)
                      /\ r.song_id = c.song_id /\ r.artist_id = c.artist_id
                      /\ IsTruncatedSeconds(r.start_time, e.ts)
                      /\ r.user_id = e.userId /\ r.level = e.level
                      /\ r.session_id = e.sessionId
        /\ \A e \in NextSongEvents :
              (\A c \in DOMAIN song_data : ~Matches(e, c)) =>
                  \E r \in DOMAIN out.songplays_table :
                      /\ r.song_id = NULL /\ r.artist_id = NULL
                      /\ IsTruncatedSeconds(r.start_time, e.ts)
                      /\ r.user_id = e.userId /\ r.level = e.level
                      /\ r.session_id = e.sessionId

\* A run with a matched play and with a play that differs from a catalog row
\* in the duration only.
C6_Witness ==
    /\ Done
    /\ \E r \in DOMAIN out.songplays_table : r.song_id # NULL
    /\ \E e \in NextSongEvents, c \in DOMAIN song_data :
          /\ e.song = c.title /\ e.artist = c.artist_name /\ e.length # c.duration
          /\ \A d \in DOMAIN song_data : ~Matches(e, d)
          /\ \E r \in DOMAIN out.songplays_table :
                r.song_id = NULL /\ r.session_id = e.sessionId /\ r.level = e.level

\* C7: whenever main() has returned, after any earlier runs, every location
\* holds exactly the table this run derived, and this table is a function of
\* the raw inputs of this run: nothing of the earlier content remains.
C7_OutputsOfLastRun ==
    Done =>
        /\ \A l \in LocationSet : out[l] = TableOf(l)
        /\ out.songs_table = SetToBag({ SongsRow(r) : r \in DOMAIN song_data })
        /\ out.artists_table = SetToBag({ ArtistsRow(r) : r \in DOMAIN song_data })
        /\ BagToSet(out.users_table) \subseteq { UsersRow(e) : e \in NextSongEvents }
        /\ BagCardinality(out.users_table) = Cardinality({ e.userId : e \in NextSongEvents })
        /\ { r.start_time : r \in DOMAIN out.time_table }
              = { get_timestamp(e.ts) : e \in NextSongEvents }
        /\ BagCardinality(out.time_table)
              = Cardinality({ get_timestamp(e.ts) : e \in NextSongEvents })
        /\ \A r \in DOMAIN out.songplays_table :
              \E e \in NextSongEvents :
                  /\ r.start_time = get_timestamp(e.ts) /\ r.user_id = e.userId
                  /\ r.session_id = e.sessionId /\ r.level = e.level
                  /\ r.song_id \in {NULL} \cup { c.song_id : c \in DOMAIN song_data }
        /\ BagCardinality(out.songplays_table) >= Cardinality(NextSongEvents)

\* A later run that returned over locations that all held other, non-empty
\* tables before.
C7_Witness ==
    /\ Done
    /\ run > 1
    /\ \A l \in LocationSet : prior[l] # EmptyBag /\ prior[l] # out[l]

\* C8: when main() has returned, the start_time values of the time table are
\* exactly the values ts / 1000 of the NextSong events, and the table has one
\* single row for each of them.
C8_TimeKey ==
    Done =>
        /\ \A e \in NextSongEvents :
              \E r \in DOMAIN out.time_table : IsTruncatedSeconds(r.start_time, e.ts)
        /\ \A r \in DOMAIN out.time_table :
              /\ \E e \in NextSongEvents : IsTruncatedSeconds(r.start_time, e.ts)
              /\ CountRows(out.time_table,
                           { x \in DOMAIN out.time_table : x.start_time = r.start_time }) = 1

\* A run over two plays in the same second.
C8_Witness ==
    /\ Done
    /\ \E e, f \in NextSongEvents : e.ts # f.ts /\ get_timestamp(e.ts) = get_timestamp(f.ts)
    /\ BagCardinality(out.time_table) = 1

\* C9: when main() has returned, songs and artists hold every row once, and
\* projecting a table to its columns and dropping duplicates again returns
\* the table itself.
C9_DedupIdempotent ==
    Done =>
        /\ \A r \in DOMAIN out.songs_table : out.songs_table[r] = 1
        /\ \A r \in DOMAIN out.artists_table : out.artists_table[r] = 1
        /\ DropDuplicates(BagOfAll(SongsRow, out.songs_table)) = out.songs_table
        /\ DropDuplicates(BagOfAll(LAMBDA r : r, out.artists_table)) = out.artists_table

\* A run over a catalog with an exact duplicate of a row.
C9_Witness ==
    /\ Done
    /\ \E r \in DOMAIN song_data : song_data[r] > 1
    /\ out.songs_table # EmptyBag

\* C10: when main() has returned, every songplays row has a time row with the
\* same start_time, year and month, and a users row with the same user_id.
C10_StarSchema ==
    Done =>
        \A r \in DOMAIN out.songplays_table :
            /\ \E t \in DOMAIN out.time_table :
                  t.start_time = r.start_time /\ t.year = r.year /\ t.month = r.month
            /\ \E u \in DOMAIN out.users_table : u.user_id = r.user_id

\* A run whose plays are of two users, in two months.
C10_Witness ==
    /\ Done
    /\ \E r, q \in DOMAIN out.songplays_table :
          r.user_id # q.user_id /\ r.month # q.month

====
